---- MODULE Spec2Model ----
(***************************************************************************)
(* Model of the iterative product-description workflow of                  *)
(* src/iterative_workflow.py: the LangGraph graph writer -> critic ->      *)
(* decision -> {writer | editor} -> END, the state record threaded through *)
(* the nodes, and main's invocation of the compiled graph.                 *)
(*                                                                         *)
(* Strings the code computes on (LLM completions) are sequences of         *)
(* one-character strings, so strip/split/int are modelled by what they do. *)
(***************************************************************************)
EXTENDS Integers, Sequences, FiniteSets, TLC

\* ------------------------------------------------------------------------
\* Program constants
\* ------------------------------------------------------------------------
MAX_ITERATIONS == 3

QUALITY_THRESHOLD == 7

DEFAULT_SCORE == 5

HISTORY_PREVIEW == 100

\* 'SCORE:' (line 132)
SCORE_MARKER == <<"S", "C", "O", "R", "E", ":">>

\* ------------------------------------------------------------------------
\* Bounds of the model
\* ------------------------------------------------------------------------
\* The critic's completion has at most this many lines.
MaxLines == 1

\* ------------------------------------------------------------------------
\* Python string operations used by the nodes
\* ------------------------------------------------------------------------
Min(a, b) == IF a <= b THEN a ELSE b

\* str.strip() / str.split() whitespace
IsSpace(c) == c \in {" ", "\n", "\t"}

RECURSIVE LStrip(_)
LStrip(s) ==
    IF s # <<>> /\ IsSpace(Head(s)) THEN LStrip(Tail(s)) ELSE s

RECURSIVE RStrip(_)
RStrip(s) ==
    IF s # <<>> /\ IsSpace(s[Len(s)]) THEN RStrip(SubSeq(s, 1, Len(s) - 1)) ELSE s

\* s.strip()
Strip(s) == RStrip(LStrip(s))

\* s[:n]
Slice(s, n) == SubSeq(s, 1, Min(n, Len(s)))

\* s.split(sep) for a one-character separator: every segment is kept,
\* the empty ones included, so the result is never empty.
RECURSIVE SplitAcc(_, _, _)
SplitAcc(s, sep, cur) ==
    IF s = <<>> THEN <<cur>>
    ELSE IF Head(s) = sep THEN <<cur>> \o SplitAcc(Tail(s), sep, <<>>)
    ELSE SplitAcc(Tail(s), sep, Append(cur, Head(s)))

Split(s, sep) == SplitAcc(s, sep, <<>>)

\* s.split(): split on runs of whitespace, no empty tokens.
RECURSIVE SplitWsAcc(_, _)
SplitWsAcc(s, cur) ==
    IF s = <<>> THEN (IF cur = <<>> THEN <<>> ELSE <<cur>>)
    ELSE IF IsSpace(Head(s))
         THEN (IF cur = <<>> THEN <<>> ELSE <<cur>>) \o SplitWsAcc(Tail(s), <<>>)
         ELSE SplitWsAcc(Tail(s), Append(cur, Head(s)))

SplitWs(s) == SplitWsAcc(s, <<>>)

\* sub in s
Contains(s, sub) ==
    \E i \in 1..(Len(s) - Len(sub) + 1) : SubSeq(s, i, i + Len(sub) - 1) = sub

Digits == {"0", "1", "2", "3", "4", "5", "6", "7", "8", "9"}

DigitVal(c) ==
    CASE c = "0" -> 0 [] c = "1" -> 1 [] c = "2" -> 2 [] c = "3" -> 3
      [] c = "4" -> 4 [] c = "5" -> 5 [] c = "6" -> 6 [] c = "7" -> 7
      [] c = "8" -> 8 [] c = "9" -> 9

RECURSIVE DigitsVal(_, _)
DigitsVal(s, acc) ==
    IF s = <<>> THEN acc ELSE DigitsVal(Tail(s), 10 * acc + DigitVal(Head(s)))

AllDigits(s) == s # <<>> /\ \A i \in 1..Len(s) : s[i] \in Digits

\* int(tok) succeeds: an optional sign followed by decimal digits
\* (tok comes out of split(), so it carries no whitespace).
IsInt(tok) ==
    IF tok # <<>> /\ Head(tok) \in {"+", "-"} THEN AllDigits(Tail(tok))
    ELSE AllDigits(tok)

\* int(tok), for a tok with IsInt(tok)
IntVal(tok) ==
    IF Head(tok) = "-" THEN 0 - DigitsVal(Tail(tok), 0)
    ELSE IF Head(tok) = "+" THEN DigitsVal(Tail(tok), 0)
    ELSE DigitsVal(tok, 0)

\* ------------------------------------------------------------------------
\* critic_node's score extraction (lines 130-135)
\* ------------------------------------------------------------------------
\* [line for line in evaluation.split('\n') if 'SCORE:' in line]
ScoreLines(evaluation) ==
    SelectSeq(Split(evaluation, "\n"), LAMBDA line : Contains(line, SCORE_MARKER))

\* score_line.split(':')[1].strip().split()
ScoreTokens(score_line) == SplitWs(Strip(Split(score_line, ":")[2]))

\* try: ... except: quality_score = 5
ParseScore(evaluation) ==
    IF ScoreLines(evaluation) = <<>> THEN DEFAULT_SCORE            \* [0] raises IndexError
    ELSE LET toks == ScoreTokens(ScoreLines(evaluation)[1])
         IN  IF toks = <<>> THEN DEFAULT_SCORE                     \* [0] raises IndexError
             ELSE IF IsInt(toks[1]) THEN IntVal(toks[1])
             ELSE DEFAULT_SCORE                                    \* int() raises ValueError


\* ------------------------------------------------------------------------
\* What the generators can return
\* ------------------------------------------------------------------------
\* response.content of writer_llm / editor_llm, before .strip()
DRAFT_BLANK == <<" ">>

DRAFT_SHORT == <<"S", "i", "p", ".">>

DRAFT_PADDED == <<" ", "S", "i", "p", " ", "s", "m", "a", "r", "t", ".", " ">>

WriterContents == {DRAFT_BLANK, DRAFT_PADDED}

EditorContents == {DRAFT_BLANK, DRAFT_SHORT}

\* Lines a critic completion is made of.
LINE_SCORE_8 == <<"S", "C", "O", "R", "E", ":", " ", "8">>

LINE_SCORE_4 == <<"S", "C", "O", "R", "E", ":", " ", "4">>

LINE_SCORE_3 == <<"S", "C", "O", "R", "E", ":", " ", "3">>

LINE_NO_SCORE == <<"n", "o", " ", "s", "c", "o", "r", "e", " ", "h", "e", "r", "e">>

LINE_SCORE_FRACTION == <<"S", "C", "O", "R", "E", ":", " ", "8", "/", "1", "0">>

LINE_SCORE_EMPTY == <<"S", "C", "O", "R", "E", ":">>

LINE_SCORE_SECOND_COLON == <<"R", "a", "t", "i", "n", "g", ":", " ", "9", " ", "S", "C", "O", "R", "E", ":", " ", "n", "/", "a">>

LINE_SCORE_15 == <<"S", "C", "O", "R", "E", ":", " ", "1", "5">>

LINE_SCORE_NEG == <<"S", "C", "O", "R", "E", ":", " ", "-", "3">>

LINE_BLANK == <<>>

\* The lines that completions of up to MaxLines lines are built from.
CriticLines ==
    {LINE_SCORE_8, LINE_SCORE_4, LINE_SCORE_3, LINE_NO_SCORE,
     LINE_SCORE_SECOND_COLON, LINE_BLANK}

\* Further one-line completions.
CriticOneLiners ==
    {LINE_SCORE_FRACTION, LINE_SCORE_EMPTY, LINE_SCORE_15, LINE_SCORE_NEG}

RECURSIVE JoinLines(_)
JoinLines(ls) ==
    IF Len(ls) = 1 THEN ls[1] ELSE ls[1] \o <<"\n">> \o JoinLines(Tail(ls))

\* Completions in the layout the critic's prompt asks for.
EVAL_FORMATTED == JoinLines(<<LINE_SCORE_8, <<"F", "E", "E", "D", "B", "A", "C", "K", ":", " ", "o", "k">>>>)

EVAL_TWO_SCORES == JoinLines(<<LINE_NO_SCORE, LINE_SCORE_4, LINE_SCORE_8>>)

\* response.content of critic_llm, before .strip()
CriticContents ==
    {JoinLines(ls) : ls \in UNION {[1..n -> CriticLines] : n \in 1..MaxLines}}
        \cup CriticOneLiners \cup {EVAL_FORMATTED, EVAL_TWO_SCORES}

\* Exceptions the generator clients raise out of .invoke(); the client
\* knows its provider, not the graph node that called it.
ErrorKinds == {"Timeout", "RateLimited"}

GroqErrors == {[provider |-> "groq", kind |-> k] : k \in ErrorKinds}

CohereErrors == {[provider |-> "cohere", kind |-> k] : k \in ErrorKinds}

\* ------------------------------------------------------------------------
\* State
\* ------------------------------------------------------------------------
VARIABLES
    pc,                 \* where the run is: "start", a node name, "done", "failed"
    state,              \* the graph's ProductDescriptionState
    result,             \* main's result: <<>> until invoke returns, then <<state>>
    error,              \* what main's except clause printed: <<>> or <<diagnostic>>
    max_iterations,     \* module global MAX_ITERATIONS
    quality_threshold,  \* module global QUALITY_THRESHOLD
    trace,              \* the nodes that have run to completion, in order
    llm_calls,          \* the node of every .invoke() issued on a generator, in order
    prompt,             \* the inputs formatted into the latest prompt
    produced            \* the latest text each of writer and critic made of its completion

vars == <<pc, state, result, error, max_iterations, quality_threshold,
          trace, llm_calls, prompt, produced>>

PRODUCT_NAME == "EcoBreeze Smart Water Bottle"

PRODUCT_FEATURES == "Smart temperature display, 24h cold, BPA-free steel, 750ml, leak-proof, UV-C, app"

\* main's initial_state (lines 250-267)
initial_state ==
    [product_name        |-> PRODUCT_NAME,
     product_features    |-> PRODUCT_FEATURES,
     current_description |-> <<>>,
     feedback            |-> <<>>,
     quality_score       |-> 0,
     iteration           |-> 1,
     should_continue     |-> TRUE,
     history             |-> <<>>]

\* the returned dict dropped instead of merged
Merge_discards(st, update) == st

\* The graph merges a node's returned dict into the state: the keys the
\* node returns are overwritten, the others kept.
Merge(st, update) ==
    [k \in DOMAIN st |-> IF k \in DOMAIN update THEN update[k] ELSE st[k]]

\* ------------------------------------------------------------------------
\* Nodes
\* ------------------------------------------------------------------------
\* writer_node's prompt (lines 60-85)
writer_prompt(st) ==
    IF st.iteration = 1
    THEN [template            |-> "create",
          product_name        |-> st.product_name,
          product_features    |-> st.product_features]
    ELSE [template            |-> "improve",
          product_name        |-> st.product_name,
          current_description |-> st.current_description,
          feedback            |-> st.feedback]

\* f"Iteration {iteration} - Writer: {new_description[:100]}..."
writer_entry(it, new_description) ==
    [node |-> "Writer", iteration |-> it,
     text |-> Slice(new_description, HISTORY_PREVIEW)]

\* writer_node returning only its own entry as the history
writer_node_overwrites(st, content) ==
    LET new_description == Strip(content)
    IN  [current_description |-> new_description,
         history |-> <<[node |-> "Writer", iteration |-> st.iteration,
                        text |-> Slice(new_description, HISTORY_PREVIEW)]>>]

\* writer_node's return value (lines 88-95)
writer_node(st, content) ==
    LET new_description == Strip(content)
    IN  [current_description |-> new_description,
         history |-> st.history \o <<writer_entry(st.iteration, new_description)>>]

\* critic_node's prompt (lines 104-125)
critic_prompt(st) ==
    [template            |-> "evaluate",
     product_name        |-> st.product_name,
     current_description |-> st.current_description]

\* f"Iteration {iteration} - Critic Score: {quality_score}/10"
critic_entry(it, score) ==
    [node |-> "Critic", iteration |-> it, score |-> score]

\* critic_node leaving the history out of its return value
critic_node_no_entry(st, content) ==
    LET evaluation    == Strip(content)
        quality_score == ParseScore(evaluation)
    IN  [feedback      |-> evaluation,
         quality_score |-> quality_score]

\* critic_node's return value (lines 128-144)
critic_node(st, content) ==
    LET evaluation    == Strip(content)
        quality_score == ParseScore(evaluation)
    IN  [feedback      |-> evaluation,
         quality_score |-> quality_score,
         history |-> st.history \o <<critic_entry(st.iteration, quality_score)>>]

\* the two conditions joined with or instead of and
decide_continue_either(score, it, threshold, max) ==
    score < threshold \/ it < max

\* the ceiling compared with <= instead of <
decide_continue_off_by_one(score, it, threshold, max) ==
    score < threshold /\ it <= max

\* the verdict taken from the ceiling alone
decide_continue_ignores_score(score, it, threshold, max) ==
    it < max

\* decision_node's verdict (lines 153-156)
decide_continue(score, it, threshold, max) ==
    score < threshold /\ it < max

\* decision_node adding 1 to iteration whatever the verdict
decision_node_always_increments(st, threshold, max) ==
    [should_continue |-> st.quality_score < threshold /\ st.iteration < max,
     iteration       |-> st.iteration + 1]

\* decision_node resetting the feedback along with its verdict
decision_node_clears_feedback(st, threshold, max) ==
    [should_continue |-> st.quality_score < threshold /\ st.iteration < max,
     iteration       |-> IF st.quality_score < threshold /\ st.iteration < max
                         THEN st.iteration + 1 ELSE st.iteration,
     feedback        |-> <<>>]

\* decision_node returning the verdict without the new iteration
decision_node_no_increment(st, threshold, max) ==
    [should_continue |-> st.quality_score < threshold /\ st.iteration < max]

\* decision_node's return value (lines 153-169)
decision_node(st, threshold, max) ==
    LET cont          == decide_continue(st.quality_score, st.iteration, threshold, max)
        new_iteration == IF cont THEN st.iteration + 1 ELSE st.iteration
    IN  [should_continue |-> cont,
         iteration       |-> new_iteration]

\* editor_node's prompt (lines 178-191)
editor_prompt(st) ==
    [template            |-> "polish",
     product_name        |-> st.product_name,
     current_description |-> st.current_description]

\* "Final Editor Polish Applied"
editor_entry == [node |-> "Editor"]

\* editor_node resetting the score of the draft it has rewritten
editor_node_unscores(st, content) ==
    LET final_description == Strip(content)
    IN  [current_description |-> final_description,
         quality_score |-> 0,
         history |-> st.history \o <<[node |-> "Editor"]>>]

\* editor_node writing the polished text over the product name as well
editor_node_renames(st, content) ==
    LET final_description == Strip(content)
    IN  [current_description |-> final_description,
         product_name |-> final_description,
         history |-> st.history \o <<[node |-> "Editor"]>>]

\* editor_node's return value (lines 194-201)
editor_node(st, content) ==
    LET final_description == Strip(content)
    IN  [current_description |-> final_description,
         history |-> st.history \o <<editor_entry>>]

\* the conditional edge going back to the writer whatever the flag
should_continue_iteration_always_writer(st) == "writer"

\* the two branches of the conditional edge swapped
should_continue_iteration_inverted(st) ==
    IF st.should_continue THEN "editor" ELSE "writer"

\* a label that the conditional edge's map does not carry
should_continue_iteration_unmapped(st) ==
    IF st.should_continue THEN "writer" ELSE "end"

\* should_continue_iteration (lines 204-209)
should_continue_iteration(st) ==
    IF st.should_continue THEN "writer" ELSE "editor"

\* main's except clause (lines 289-294): str(e) and the API-key hints
diagnostic(e) ==
    <<"Error occurred", e.provider, e.kind,
      "GROQ_API_KEY", "COHERE_API_KEY", "OPENAI_API_KEY">>

\* ------------------------------------------------------------------------
\* Steps of a run
\* ------------------------------------------------------------------------
TypeOK ==
    /\ pc \in {"start", "writer", "critic", "decision", "editor", "done", "failed"}
    /\ state.iteration \in Int
    /\ state.quality_score \in Int
    /\ state.should_continue \in BOOLEAN
    /\ Len(result) <= 1
    /\ Len(error) <= 1

InitWith(max, threshold) ==
    /\ pc = "start"
    /\ state = initial_state
    /\ result = <<>>
    /\ error = <<>>
    /\ max_iterations = max
    /\ quality_threshold = threshold
    /\ trace = <<>>
    /\ llm_calls = <<>>
    /\ prompt = <<>>
    /\ produced = [writer |-> <<>>, critic |-> <<>>]

Init == InitWith(MAX_ITERATIONS, QUALITY_THRESHOLD)

\* main: workflow.invoke(initial_state); START -> writer
Invoke ==
    /\ pc = "start"
    /\ pc' = "writer"
    /\ UNCHANGED <<state, result, error, max_iterations, quality_threshold,
                   trace, llm_calls, prompt, produced>>

\* the exception swallowed and the state so far handed back as the result
RaisesReturnsPartial(n, p, e) ==
    /\ prompt' = <<p>>
    /\ llm_calls' = Append(llm_calls, n)
    /\ pc' = "done"
    /\ result' = <<state>>
    /\ UNCHANGED <<state, error, max_iterations, quality_threshold, trace, produced>>

\* A generator call of node n raises e: nothing catches it before main.
Raises(n, p, e) ==
    /\ prompt' = <<p>>
    /\ llm_calls' = Append(llm_calls, n)
    /\ pc' = "failed"
    /\ error' = <<diagnostic(e)>>
    /\ UNCHANGED <<state, result, max_iterations, quality_threshold, trace, produced>>

\* writer node, then the edge writer -> critic
Writer ==
    /\ pc = "writer"
    /\ \E content \in WriterContents :
          /\ state' = Merge(state, writer_node(state, content))
          /\ produced' = [produced EXCEPT !.writer = Strip(content)]
    /\ prompt' = <<writer_prompt(state)>>
    /\ llm_calls' = Append(llm_calls, "writer")
    /\ trace' = Append(trace, "writer")
    /\ pc' = "critic"
    /\ UNCHANGED <<result, error, max_iterations, quality_threshold>>

WriterRaises ==
    /\ pc = "writer"
    /\ \E e \in GroqErrors : Raises("writer", writer_prompt(state), e)

\* critic node, then the edge critic -> decision
Critic ==
    /\ pc = "critic"
    /\ \E content \in CriticContents :
          /\ state' = Merge(state, critic_node(state, content))
          /\ produced' = [produced EXCEPT !.critic = Strip(content)]
    /\ prompt' = <<critic_prompt(state)>>
    /\ llm_calls' = Append(llm_calls, "critic")
    /\ trace' = Append(trace, "critic")
    /\ pc' = "decision"
    /\ UNCHANGED <<result, error, max_iterations, quality_threshold>>

CriticRaises ==
    /\ pc = "critic"
    /\ \E e \in CohereErrors : Raises("critic", critic_prompt(state), e)

\* decision node, then the conditional edge on the merged state
Decision ==
    /\ pc = "decision"
    /\ state' = Merge(state, decision_node(state, quality_threshold, max_iterations))
    /\ trace' = Append(trace, "decision")
    /\ pc' = should_continue_iteration(state')
    /\ UNCHANGED <<result, error, max_iterations, quality_threshold, llm_calls,
                   prompt, produced>>

\* editor node, the edge editor -> END, and invoke's return into result
Editor ==
    /\ pc = "editor"
    /\ \E content \in EditorContents :
          state' = Merge(state, editor_node(state, content))
    /\ prompt' = <<editor_prompt(state)>>
    /\ llm_calls' = Append(llm_calls, "editor")
    /\ trace' = Append(trace, "editor")
    /\ result' = <<state'>>
    /\ pc' = "done"
    /\ UNCHANGED <<error, max_iterations, quality_threshold, produced>>

EditorRaises ==
    /\ pc = "editor"
    /\ \E e \in GroqErrors : Raises("editor", editor_prompt(state), e)

Next ==
    \/ Invoke
    \/ Writer
    \/ WriterRaises
    \/ Critic
    \/ CriticRaises
    \/ Decision
    \/ Editor
    \/ EditorRaises

Spec == Init /\ [][Next]_vars

\* Every step of a run is taken when it can be: the program is sequential
\* and each call returns or raises.
FairSpec == Spec /\ WF_vars(Next)

\* The module globals set to other values than the source's (lines 23-24),
\* some of them invalid: a ceiling below 1, a threshold outside 0..10.
Configurations ==
    {[max |-> MAX_ITERATIONS, threshold |-> QUALITY_THRESHOLD],
     [max |-> 0,              threshold |-> QUALITY_THRESHOLD],
     [max |-> MAX_ITERATIONS, threshold |-> 0 - 1],
     [max |-> 1,              threshold |-> 11]}

ConfigInit == \E c \in Configurations : InitWith(c.max, c.threshold)

ConfigSpec == ConfigInit /\ [][Next]_vars

\* ------------------------------------------------------------------------
\* Observations on a run
\* ------------------------------------------------------------------------
RECURSIVE Count(_, _)
Count(seq, x) ==
    IF seq = <<>> THEN 0
    ELSE (IF Head(seq) = x THEN 1 ELSE 0) + Count(Tail(seq), x)

Last(seq) == seq[Len(seq)]

Range(seq) == {seq[i] : i \in 1..Len(seq)}

IsPrefix(s, t) == Len(s) <= Len(t) /\ SubSeq(t, 1, Len(s)) = s

\* Executions of the loop body: it ends with the decision node.
LoopBodies == Count(trace, "decision")

\* The scores the critic has given so far, in order.
CriticScores ==
    LET cs == SelectSeq(state.history, LAMBDA en : en.node = "Critic")
    IN  [i \in 1..Len(cs) |-> cs[i].score]

\* ------------------------------------------------------------------------
\* C1
\* ------------------------------------------------------------------------
\* C1: whatever the critic scores, writer, critic and decision each run at
\* most MAX_ITERATIONS times, and the iteration counter never exceeds
\* MAX_ITERATIONS.
C1_IterationBound ==
    /\ state.iteration <= MAX_ITERATIONS
    /\ Count(trace, "writer") <= MAX_ITERATIONS
    /\ Count(trace, "critic") <= MAX_ITERATIONS
    /\ LoopBodies <= MAX_ITERATIONS

\* The ceiling is reached: three loop bodies ran and the run went on to the editor.
C1_Witness ==
    /\ pc = "editor"
    /\ LoopBodies = MAX_ITERATIONS
    /\ state.iteration = MAX_ITERATIONS

\* ------------------------------------------------------------------------
\* C2
\* ------------------------------------------------------------------------
\* C2: a run whose generation calls all return (none raises, so the run
\* never fails) eventually reaches the end of the graph after the editor.
C2_Termination == <>(pc = "done" \/ pc = "failed")

\* A run that went through every permitted iteration and completed.
C2_Witness ==
    /\ pc = "done"
    /\ LoopBodies = MAX_ITERATIONS
    /\ Last(trace) = "editor"

\* ------------------------------------------------------------------------
\* C3
\* ------------------------------------------------------------------------
\* C3: when the critic has scored the draft at or above QUALITY_THRESHOLD
\* while iteration < MAX_ITERATIONS, the decision that follows sets
\* should_continue to false, leaves iteration as it was, and routes to the
\* editor; the node that then runs is the editor, not the writer.
C3_EarlyStop ==
    [][ /\ ( /\ pc = "decision"
             /\ state.quality_score >= QUALITY_THRESHOLD
             /\ state.iteration < MAX_ITERATIONS )
           => ( /\ state'.should_continue = FALSE
                /\ state'.iteration = state.iteration
                /\ pc' = "editor"
                /\ trace' = Append(trace, "decision") )
        /\ ( /\ pc = "editor"
             /\ trace' # trace )
           => trace' = Append(trace, "editor")
      ]_vars

\* The decision has just stopped a run early on a score at the threshold or above.
C3_Witness ==
    /\ pc = "editor"
    /\ Last(trace) = "decision"
    /\ state.quality_score >= QUALITY_THRESHOLD
    /\ state.iteration < MAX_ITERATIONS
    /\ state.should_continue = FALSE

\* ------------------------------------------------------------------------
\* C4
\* ------------------------------------------------------------------------
\* C4: in a completed run with critic scores s1..sn, n is the first index
\* whose score reaches QUALITY_THRESHOLD, or MAX_ITERATIONS when none of
\* the first MAX_ITERATIONS scores does: every score before the n-th is
\* below the threshold, n <= MAX_ITERATIONS, and the n-th score reaches the
\* threshold unless n = MAX_ITERATIONS.  The final iteration counter is n
\* and the editor ran once, last.  Scores 4, 8 end with counter 2; scores
\* 3, 4, 5 end with counter 3.
C4_LoopCount ==
    pc = "done" =>
        LET n == LoopBodies
            s == CriticScores
        IN  /\ Len(s) = n
            /\ n >= 1
            /\ n <= MAX_ITERATIONS
            /\ \A i \in 1..(n - 1) : s[i] < QUALITY_THRESHOLD
            /\ s[n] >= QUALITY_THRESHOLD \/ n = MAX_ITERATIONS
            /\ state.iteration = n
            /\ result[1].iteration = n
            /\ Count(trace, "writer") = n
            /\ Count(trace, "critic") = n
            /\ Count(trace, "editor") = 1
            /\ Last(trace) = "editor"
            /\ (Len(s) >= 2 /\ SubSeq(s, 1, 2) = <<4, 8>>) => n = 2
            /\ (Len(s) >= 3 /\ SubSeq(s, 1, 3) = <<3, 4, 5>>) => n = 3

\* Scenario B: scores 3, 4, 5 and the run stopped on the ceiling alone.
C4_Witness ==
    /\ pc = "done"
    /\ CriticScores = <<3, 4, 5>>
    /\ state.iteration = MAX_ITERATIONS

\* Scenario A: scores 4, 8 and the run stopped after the second iteration.
C4_ScenarioA ==
    /\ pc = "done"
    /\ CriticScores = <<4, 8>>
    /\ state.iteration = 2

\* ------------------------------------------------------------------------
\* C5
\* ------------------------------------------------------------------------
\* The text after the first 'SCORE:' of a line that contains it.
AfterMarker(line) ==
    LET i == CHOOSE j \in 1..Len(line) :
                 /\ SubSeq(line, j, j + Len(SCORE_MARKER) - 1) = SCORE_MARKER
                 /\ \A k \in 1..(j - 1) :
                        SubSeq(line, k, k + Len(SCORE_MARKER) - 1) # SCORE_MARKER
    IN  SubSeq(line, i + Len(SCORE_MARKER), Len(line))

\* No line carries the marker, or the token after the marker on the first
\* line that carries it is missing or is not an integer.
NoParseableScore(evaluation) ==
    \/ ScoreLines(evaluation) = <<>>
    \/ LET toks == SplitWs(AfterMarker(ScoreLines(evaluation)[1]))
       IN  toks = <<>> \/ ~IsInt(toks[1])

\* C5: when the critic's response has no line with 'SCORE:', or the token
\* after the marker on the first such line is not an integer, the critic
\* sets quality_score to 5, appends its history entry, and the run goes on
\* to the decision.
C5_Fallback ==
    (Len(trace) > 0 /\ Last(trace) = "critic" /\ NoParseableScore(state.feedback)) =>
        /\ state.quality_score = DEFAULT_SCORE
        /\ Last(state.history) = critic_entry(state.iteration, DEFAULT_SCORE)
        /\ pc = "decision"

\* ------------------------------------------------------------------------
\* C6
\* ------------------------------------------------------------------------
\* C6: in a completed run of n loop bodies the history has 2n + 1 entries:
\* for each iteration i = 1..n a Writer entry then a Critic entry, and one
\* final Editor entry; the decision adds none.
C6_HistoryShape ==
    pc = "done" =>
        LET n == LoopBodies
            h == result[1].history
        IN  /\ h = state.history
            /\ Len(h) = 2 * n + 1
            /\ \A i \in 1..n :
                  /\ h[2 * i - 1].node = "Writer"
                  /\ h[2 * i - 1].iteration = i
                  /\ h[2 * i].node = "Critic"
                  /\ h[2 * i].iteration = i
            /\ h[2 * n + 1] = editor_entry

\* A completed run of three iterations: seven entries.
C6_Witness ==
    /\ pc = "done"
    /\ LoopBodies = MAX_ITERATIONS
    /\ Len(result[1].history) = 2 * MAX_ITERATIONS + 1

\* ------------------------------------------------------------------------
\* C7
\* ------------------------------------------------------------------------
\* C7 as stated: the history before a stage is a prefix of the history
\* after it, and every stage execution, the decision included, appends
\* exactly one entry.
C7_EveryStageAppends ==
    [][ /\ IsPrefix(state.history, state'.history)
        /\ trace' # trace => Len(state'.history) = Len(state.history) + 1
      ]_vars

\* C7: the history before a step is a prefix of the history after it; a
\* writer, critic or editor execution appends exactly one entry, a decision
\* execution appends none, and no other step changes the history.
C7_AppendOnly ==
    [][ /\ IsPrefix(state.history, state'.history)
        /\ (trace' # trace /\ Last(trace') # "decision")
              => Len(state'.history) = Len(state.history) + 1
        /\ (trace' # trace /\ Last(trace') = "decision")
              => state'.history = state.history
        /\ trace' = trace => state'.history = state.history
      ]_vars

\* Two loop bodies have run: four entries, none from the two decisions.
C7_Witness ==
    /\ Len(trace) > 0
    /\ Last(trace) = "decision"
    /\ LoopBodies = 2
    /\ Len(state.history) = 4

\* ------------------------------------------------------------------------
\* C8
\* ------------------------------------------------------------------------
\* C8: when a generation call of the writer, critic or editor raises (a
\* call is issued and its node does not complete), the run is failed at
\* once with nothing returned as main's result; a failed run takes no
\* further step, so no node runs and no call is issued again.
C8_FailFast ==
    [][ /\ pc # "failed"
        /\ (llm_calls' # llm_calls /\ trace' = trace)
              => /\ pc' = "failed"
                 /\ result' = <<>>
                 /\ error' # <<>>
                 /\ llm_calls' = Append(llm_calls, pc)
        /\ pc' = "failed" => result' = <<>>
      ]_vars

\* Scenario D: the writer's call of iteration 2 raised.
C8_Witness ==
    /\ pc = "failed"
    /\ Last(llm_calls) = "writer"
    /\ state.iteration = 2
    /\ Len(state.history) = 2
    /\ result = <<>>

\* ------------------------------------------------------------------------
\* C9
\* ------------------------------------------------------------------------
\* C9: when a run has failed on a generation call, the diagnostic given to
\* the caller names the node (writer, critic or editor) that issued the
\* call.
C9_ErrorNamesStage ==
    pc = "failed" => Last(llm_calls) \in Range(error[1])

\* ------------------------------------------------------------------------
\* C10
\* ------------------------------------------------------------------------
InvalidConfig ==
    \/ max_iterations < 1
    \/ quality_threshold < 0
    \/ quality_threshold > 10

\* C10: a run started with a threshold outside 0..10 or a ceiling below 1
\* issues no generation call and executes no node.
C10_InvalidConfigRejected ==
    InvalidConfig => (llm_calls = <<>> /\ trace = <<>>)

\* ------------------------------------------------------------------------
\* C11
\* ------------------------------------------------------------------------
\* C11: the editor runs only right after a decision whose verdict is stop
\* and only if it has not run before; a completed run has exactly one
\* editor execution, its last node; nothing runs after the run completed.
C11_EditorOnce ==
    [][ /\ pc # "done"
        /\ (trace' # trace /\ Last(trace') = "editor")
              => /\ Last(trace) = "decision"
                 /\ state.should_continue = FALSE
                 /\ Count(trace, "editor") = 0
        /\ pc' = "done"
              => /\ Count(trace', "editor") = 1
                 /\ Last(trace') = "editor"
      ]_vars

\* A run completed after two loop bodies, the editor having run once.
C11_Witness ==
    /\ pc = "done"
    /\ LoopBodies = 2
    /\ Count(trace, "editor") = 1

\* ------------------------------------------------------------------------
\* C12
\* ------------------------------------------------------------------------
\* The node that ran before the i-th one, "" for the first.
Before(i) == IF i = 1 THEN "" ELSE trace[i - 1]

\* C12: the nodes run in the order (writer critic decision)+ editor: the
\* first is the writer, entered with iteration 1; the writer is followed by
\* the critic, the critic by the decision, the decision by the writer when
\* should_continue is true and by the editor when it is false.  Each node
\* reads the state with the previous node's update merged: every writer,
\* critic and editor update is in the history, and the critic is handed the
\* draft the writer just produced.
C12_StageOrder ==
    /\ Len(state.history) =
          Count(trace, "writer") + Count(trace, "critic") + Count(trace, "editor")
    /\ \A i \in 1..Len(trace) :
          /\ trace[i] = "writer" => Before(i) \in {"", "decision"}
          /\ trace[i] = "critic" => Before(i) = "writer"
          /\ trace[i] = "decision" => Before(i) = "critic"
          /\ trace[i] = "editor" => Before(i) = "decision"
    /\ pc = "start" => trace = <<>>
    /\ (pc = "writer" /\ trace = <<>>) => state.iteration = 1
    /\ (pc = "writer" /\ trace # <<>>) =>
          (Last(trace) = "decision" /\ state.should_continue)
    /\ pc = "critic" =>
          /\ Last(trace) = "writer"
          /\ state.current_description = produced.writer
          /\ Last(state.history) = writer_entry(state.iteration, produced.writer)
    /\ pc = "decision" =>
          /\ Last(trace) = "critic"
          /\ prompt[1].current_description = produced.writer
          /\ state.feedback = produced.critic
    /\ pc = "editor" => (Last(trace) = "decision" /\ ~state.should_continue)
    /\ pc = "done" => Last(trace) = "editor"

\* A completed run that looped once: writer, critic, decision twice, then editor.
C12_Witness ==
    /\ pc = "done"
    /\ trace = <<"writer", "critic", "decision",
                 "writer", "critic", "decision", "editor">>

\* ------------------------------------------------------------------------
\* C13
\* ------------------------------------------------------------------------
\* C13: a decision sets should_continue to true exactly when quality_score <
\* QUALITY_THRESHOLD and iteration < MAX_ITERATIONS; it adds 1 to iteration
\* when should_continue becomes true and leaves it as it was otherwise.
C13_DecisionPolicy ==
    [][ pc = "decision" =>
          /\ state'.should_continue =
                (state.quality_score < QUALITY_THRESHOLD /\ state.iteration < MAX_ITERATIONS)
          /\ state'.should_continue => state'.iteration = state.iteration + 1
          /\ ~state'.should_continue => state'.iteration = state.iteration
      ]_vars

\* Two decisions have continued: the third iteration is about to start.
C13_Witness ==
    /\ pc = "writer"
    /\ Len(trace) > 0
    /\ Last(trace) = "decision"
    /\ state.should_continue
    /\ state.iteration = MAX_ITERATIONS

\* ------------------------------------------------------------------------
\* C14
\* ------------------------------------------------------------------------
\* C14: in every state quality_score is an integer between 0 and 10, for
\* every text the critic's generator can return.
C14_ScoreRange ==
    state.quality_score \in 0..10

\* ------------------------------------------------------------------------
\* C15
\* ------------------------------------------------------------------------
\* C15: should_continue is true when the run starts; once false it is never
\* true again; it turns false only in a decision, which then routes to the
\* editor; it is false when the run completes (so it turned false exactly
\* once); and once it is false the writer does not run again.
C15_FlagFallsOnce ==
    [][ /\ pc = "start" => state.should_continue
        /\ ~state.should_continue => ~state'.should_continue
        /\ (state.should_continue /\ ~state'.should_continue)
              => (pc = "decision" /\ pc' = "editor")
        /\ (~state.should_continue /\ trace' # trace) => Last(trace') # "writer"
        /\ ~state.should_continue => pc' # "writer"
        /\ pc' = "done" => ~state'.should_continue
      ]_vars

\* A completed run that looped: the flag was true through two decisions'
\* worth of iterations and is false at the end.
C15_Witness ==
    /\ pc = "done"
    /\ LoopBodies = 2
    /\ ~state.should_continue
    /\ ~result[1].should_continue

\* ------------------------------------------------------------------------
\* C16
\* ------------------------------------------------------------------------
\* C16: iteration is at least 1 and never decreases; it changes only in a
\* decision, by exactly 1, and it does so exactly when the decision routes
\* back to the writer, so the k-th writer execution reads iteration = k.
C16_IterationSteps ==
    [][ /\ state.iteration >= 1
        /\ state'.iteration >= state.iteration
        /\ state'.iteration # state.iteration
              => /\ pc = "decision"
                 /\ pc' = "writer"
                 /\ state'.iteration = state.iteration + 1
        /\ (pc = "decision" /\ pc' = "writer")
              => state'.iteration = state.iteration + 1
        /\ pc = "writer" => state.iteration = Count(trace, "writer") + 1
      ]_vars

\* The third writer execution has run and read iteration 3.
C16_Witness ==
    /\ pc = "critic"
    /\ Count(trace, "writer") = 3
    /\ state.iteration = 3
    /\ Last(state.history).iteration = 3

\* ------------------------------------------------------------------------
\* C17
\* ------------------------------------------------------------------------
\* C17: once the writer has run, current_description is a non-empty string,
\* whatever the generators return.
C17_DraftNonEmpty ==
    Count(trace, "writer") >= 1 => state.current_description # <<>>

\* ------------------------------------------------------------------------
\* C18
\* ------------------------------------------------------------------------
\* C18: product_name and product_features keep the values the run was
\* created with, in the graph's state and in the state main gets back.
C18_SubjectUnchanged ==
    /\ state.product_name = initial_state.product_name
    /\ state.product_features = initial_state.product_features
    /\ result # <<>> =>
          /\ result[1].product_name = initial_state.product_name
          /\ result[1].product_features = initial_state.product_features

\* A completed run of three iterations returned the subject it was given.
C18_Witness ==
    /\ pc = "done"
    /\ LoopBodies = MAX_ITERATIONS
    /\ result[1].product_name = PRODUCT_NAME
    /\ result[1].product_features = PRODUCT_FEATURES

\* ------------------------------------------------------------------------
\* C19
\* ------------------------------------------------------------------------
\* The writer's generator is called in this step (the call may raise).
WriterCalled == llm_calls' = Append(llm_calls, "writer")

\* The first writer call is handed the product name and features only; a
\* later one is handed the draft the previous writer execution produced and
\* the evaluation the previous critic execution produced.
WriterInputsLatest ==
    WriterCalled =>
        IF Count(llm_calls, "writer") = 0
        THEN prompt'[1] = [template         |-> "create",
                           product_name     |-> PRODUCT_NAME,
                           product_features |-> PRODUCT_FEATURES]
        ELSE /\ prompt'[1].template = "improve"
             /\ prompt'[1].product_name = PRODUCT_NAME
             /\ prompt'[1].current_description = produced.writer
             /\ prompt'[1].feedback = produced.critic

\* C19: the first writer execution uses the initial mode (name and
\* features, no draft or feedback); every later one uses the refinement
\* mode with the draft of the writer execution just before and the
\* evaluation of the critic execution just before, never an older one; that
\* evaluation is empty when the critic's completion was blank.
C19_ModeSelection == [][WriterInputsLatest]_vars

\* C19 as stated: the same, and the feedback handed to a refinement is
\* never empty.
C19_FeedbackNeverEmpty ==
    [][ /\ WriterInputsLatest
        /\ (WriterCalled /\ Count(llm_calls, "writer") > 0)
              => prompt'[1].feedback # <<>>
      ]_vars

\* The writer refined a draft on the evaluation the critic just gave.
C19_Witness ==
    /\ pc = "critic"
    /\ Count(trace, "writer") = 2
    /\ prompt[1].template = "improve"
    /\ prompt[1].feedback = LINE_SCORE_4

\* ------------------------------------------------------------------------
\* C20
\* ------------------------------------------------------------------------
\* C20: a decision issues no generation call and leaves current draft,
\* feedback, quality score, history, product name and product features as
\* they were; should_continue and iteration are all it may change.
C20_DecisionFrame ==
    [][ pc = "decision" =>
          /\ llm_calls' = llm_calls
          /\ prompt' = prompt
          /\ state'.current_description = state.current_description
          /\ state'.feedback = state.feedback
          /\ state'.quality_score = state.quality_score
          /\ state'.history = state.history
          /\ state'.product_name = state.product_name
          /\ state'.product_features = state.product_features
          /\ DOMAIN state' = DOMAIN state
      ]_vars

\* A decision has continued a run: iteration 2, the critic's feedback and
\* both history entries still in the state.
C20_Witness ==
    /\ pc = "writer"
    /\ Len(trace) > 0
    /\ Last(trace) = "decision"
    /\ state.iteration = 2
    /\ state.feedback = LINE_SCORE_4
    /\ state.quality_score = 4
    /\ Len(state.history) = 2

\* ------------------------------------------------------------------------
\* C21
\* ------------------------------------------------------------------------
\* The iteration labels of the writer and critic entries of a history, in
\* order.
IterationLabels(history) ==
    LET es == SelectSeq(history, LAMBDA en : en.node \in {"Writer", "Critic"})
    IN  [i \in 1..Len(es) |-> es[i].iteration]

\* 1, 1, 2, 2, ..., n, n
PairedLabels(n) == [i \in 1..(2 * n) |-> (i + 1) \div 2]

\* C21: when a run has completed, the iteration counter of the returned
\* state equals the number of writer executions, of critic executions and
\* of decision executions of the run, and the iteration labels of the
\* writer and critic entries of its history are 1, 1, 2, 2, ..., n, n, a
\* writer entry before the critic entry of the same label.
C21_TerminalCounts ==
    pc = "done" =>
        LET final == result[1]
            n     == final.iteration
        IN  /\ n = Count(trace, "writer")
            /\ n = Count(trace, "critic")
            /\ n = Count(trace, "decision")
            /\ IterationLabels(final.history) = PairedLabels(n)
            /\ Len(final.history) = 2 * n + 1
            /\ \A k \in 1..n :
                  /\ final.history[2 * k - 1].node = "Writer"
                  /\ final.history[2 * k].node = "Critic"

\* A run completed after two rounds of the loop.
C21_Witness ==
    /\ pc = "done"
    /\ result[1].iteration = 2
    /\ Count(trace, "writer") = 2
    /\ IterationLabels(result[1].history) = <<1, 1, 2, 2>>

\* ------------------------------------------------------------------------
\* C22
\* ------------------------------------------------------------------------
\* The editor step leaves score, feedback, counter and flag as the decision
\* before it left them, and hands the merged state back as the result.
EditorFrame ==
    (pc = "editor" /\ pc' = "done") =>
        /\ state'.quality_score = state.quality_score
        /\ state'.feedback = state.feedback
        /\ state'.iteration = state.iteration
        /\ state'.should_continue = state.should_continue
        /\ state'.product_name = state.product_name
        /\ state'.product_features = state.product_features
        /\ DOMAIN state' = DOMAIN state
        /\ result' = <<state'>>

\* The editor is entered from the decision only, so the state it reads is
\* the state after the last decision.
EditorFollowsDecision ==
    pc = "editor" => /\ trace # <<>>
                     /\ Last(trace) = "decision"
                     /\ ~state.should_continue

\* In the returned state the score and the feedback are those of the last
\* critic execution, and nothing ran after the editor.
ResultScoreIsLastCritics ==
    pc = "done" =>
        /\ CriticScores # <<>>
        /\ result[1].quality_score = Last(CriticScores)
        /\ result[1].feedback = produced.critic
        /\ ~result[1].should_continue
        /\ Last(trace) = "editor"
        /\ Last(llm_calls) = "editor"
        /\ Count(trace, "editor") = 1

\* C22: the editor changes only the current draft and the history; quality
\* score, feedback, iteration counter and continuation flag of the terminal
\* state are those after the last decision, so the returned score is the
\* one the last critic gave to the draft before the polish, and the
\* polished draft is never scored.
C22_EditorFrame ==
    /\ [][EditorFrame]_vars
    /\ [](EditorFollowsDecision /\ ResultScoreIsLastCritics)

\* A run whose editor rewrote the draft that the critic had scored 8.
C22_Witness ==
    /\ pc = "done"
    /\ result[1].quality_score = 8
    /\ result[1].current_description = Strip(DRAFT_SHORT)
    /\ produced.writer # result[1].current_description
    /\ Last(result[1].history) = editor_entry

====
